---------------------------- MODULE Spec2Model ----------------------------
(***************************************************************************)
(* Model of the AI-Sec repository.  The repository holds two deployments   *)
(* of the same detection pipeline:                                         *)
(*   - main.py: a TCP listener (one thread per connection) appending to    *)
(*     the in-memory list log_data_store under a lock, and ai_engine_loop  *)
(*     training/scoring on slices of that list;                            *)
(*   - app.py + ai_engine.py: the HTTP /ingest route inserting into the    *)
(*     logs table, and main_loop training/scoring rows read back by        *)
(*     timestamp.                                                          *)
(* A run is one of the two programs; the variable program says which.      *)
(***************************************************************************)
EXTENDS Integers, Sequences, FiniteSets, TLC

(***************************************************************************)
(* Bounds of the model.                                                    *)
(***************************************************************************)
MaxStore == 3      \* events accepted over all TCP connections
NConns   == 2      \* concurrent TCP connections (handler threads)
MaxLogs  == 3      \* rows inserted into the logs table

(***************************************************************************)
(* Program constants.  The sizes are scaled down (the source has 100, 50    *)
(* and 50) so that training, scoring and retraining happen within the      *)
(* bounds.                                                                 *)
(***************************************************************************)
TRAINING_DATA_SIZE == 2            \* main.py
AI_TRAINING_DATA_SIZE == 2         \* ai_engine.py's TRAINING_DATA_SIZE
MODEL_RETRAIN_LOG_COUNT == 2

None == 0          \* model = None / scaler = None

Absent == "<absent>"     \* a key that the JSON object does not carry

(***************************************************************************)
(* JSON payloads a producer can send.  kind is the top-level JSON type     *)
(* ("invalid" = bytes that are not JSON); details_kind the type of the     *)
(* value under "details".                                                  *)
(***************************************************************************)
Payload(k, ts, h, et, dk, u, ip) ==
    [kind |-> k, timestamp |-> ts, hostname |-> h, event_type |-> et,
     details_kind |-> dk, user |-> u, source_ip |-> ip]

E_ok      == Payload("object", "2024-01-06T03:00:00", "web-server-01",
                     "ssh_login_success", "object", "root", "10.0.0.5")
E_badts   == Payload("object", "not-a-date", "web-server-01",
                     "ssh_login_success", "object", "ubuntu", "10.0.0.5")
E_nots    == Payload("object", Absent, "web-server-01",
                     "ssh_login_success", "object", "ubuntu", "10.0.0.5")
E_nouser  == Payload("object", "2024-01-06T03:00:00", "web-server-01",
                     "ssh_login_success", "object", Absent, Absent)
E_detstr  == Payload("object", "2024-01-06T03:00:00", "web-server-01",
                     "ssh_login_success", "string", Absent, Absent)
E_number  == Payload("number", Absent, Absent, Absent, "absent", Absent, Absent)
E_garbage == Payload("invalid", Absent, Absent, Absent, "absent", Absent, Absent)

\* The value of a handler's local event while it holds none.
NoEvent == E_garbage

TcpPayloads == {E_ok, E_badts, E_nots, E_nouser, E_detstr, E_number, E_garbage}

VARIABLES
    program,              \* "main" (main.py), "ai_engine" (app.py + ai_engine.py)
                          \* or "run" (run.py, the orchestrator)
    \* ---- main.py ----
    log_data_store,       \* the shared list
    lock,                 \* "free", "loop" or the connection holding it
    model, scaler,        \* None or the number of the training run that set it
    seen_ips,             \* set of source IPs seen by extract_features
    processed_log_count,  \* ai_engine_loop's cursor
    all_logs, new_logs,   \* ai_engine_loop's locals
    loop_pc,              \* "sleep", "locked", "train", "detect", "crashed"
    di,                   \* position of detect_anomalies in new_logs
    conn_pc,              \* per connection: "recv", "recv_rest" (at recv, the
                          \* bytes read so far end inside an event), "wait",
                          \* "append", "closed"
    conn_event,           \* per connection: the parsed event to append
    printed,              \* store indices of the alerts printed, in order
    fvecs,                \* feature vectors extracted so far, in order
    batches,              \* processed batches <<kind, first, last>>, in order
    loop_exc,             \* the exception that ended ai_engine_loop, or "none"
    tcp_sent,             \* JSON texts the handlers have received to the last byte
    \* ---- app.py + ai_engine.py (model and scaler are ai_engine.py's too) ----
    logs,                 \* the logs table: rows in insertion order
    alerts,               \* the alerts table: the row of logs each alert is about
    notified,             \* notification POSTs made: <<row of logs, outcome>>
    last_model_train_time,
    last_processed_timestamp,      \* main_loop's cursor
    logs_processed_since_retrain,
    ai_pc,                \* "start", "sleep", "scan", "crashed", "exited",
                          \* "terminated"
    ai_new_logs,          \* main_loop's new_logs, as row numbers of logs
    ai_i,                 \* position of detect_and_alert's loop in new_logs
    alerts_to_insert,     \* detect_and_alert's local list
    trained_ids,          \* rows of logs a training run was fitted on
    scored_ids,           \* rows of logs passed to detect_and_alert
    ai_exc,               \* the failure that ended main_loop, or "none"
    train_result,         \* what ai_engine.train_model last returned, or "none"
    \* ---- run.py ----
    run_pc,               \* the main thread: "check", "start", "join", "exited",
                          \* or inside signal_handler: "term", "kill", "done"
    run_i,                \* index of the loop the main thread is in
    svc_pc,               \* per service thread: "unstarted", "spawn", "append",
                          \* "stream", "done"
    proc,                 \* per service, its child process: "none", "running",
                          \* "exited"
    processes             \* the list processes, as service names

mainVars == <<log_data_store, lock, seen_ips, processed_log_count,
              all_logs, new_logs, loop_pc, di, conn_pc, conn_event, printed,
              fvecs, batches, loop_exc, tcp_sent>>

dbVars == <<logs, alerts, notified, last_model_train_time,
            last_processed_timestamp, logs_processed_since_retrain, ai_pc,
            ai_new_logs, ai_i, alerts_to_insert, trained_ids, scored_ids,
            ai_exc, train_result>>

runVars == <<run_pc, run_i, svc_pc, proc, processes>>

vars == <<program, model, scaler, mainVars, dbVars, runVars>>

\* COMMANDS, in the order of the dict.
Services == <<"Flask App", "AI Engine", "Agent">>
ServiceNames == {Services[k] : k \in 1..Len(Services)}

Conns == 1..NConns


(***************************************************************************)
(* main.py: AI engine functions                                            *)
(***************************************************************************)
frequent_users == {"ubuntu", "ec2-user", "admin", "deploy"}

\* datetime.fromisoformat on the timestamps the payloads carry: the parsed
\* hour and weekday (Monday = 0), or ok = FALSE for the ValueError.
FromIsoFormat(s) ==
    CASE s = "2024-01-06T03:00:00" -> [ok |-> TRUE, hour |-> 3, weekday |-> 5]
      [] s = "2024-01-08T10:00:00" -> [ok |-> TRUE, hour |-> 10, weekday |-> 0]
      [] s = "2024-01-08T11:30:00" -> [ok |-> TRUE, hour |-> 11, weekday |-> 0]
      [] OTHER                     -> [ok |-> FALSE, hour |-> 0, weekday |-> 0]

\* The position of a parsed timestamp on the time line (datetime's order);
\* datetime(1970, 1, 1) is Epoch.
Epoch == 0
Instant(s) ==
    CASE s = "2024-01-06T03:00:00" -> 1
      [] s = "2024-01-08T10:00:00" -> 2
      [] s = "2024-01-08T11:30:00" -> 3
      [] OTHER                     -> Epoch

\* details.get('user', 'unknown') and details.get('source_ip', '0.0.0.0'),
\* where details = event.get('details', {}).
DetailsUser(event) == IF event.user = Absent THEN "unknown" ELSE event.user
DetailsSourceIp(event) ==
    IF event.source_ip = Absent THEN "0.0.0.0" ELSE event.source_ip

\* The exception extract_features raises on the event and does not catch,
\* or "none": event.get on a non-object, details.get on a non-object,
\* event['timestamp'] on a missing key.
ExtractRaises(event) ==
    IF event.kind # "object" THEN "AttributeError"
    ELSE IF event.details_kind \notin {"object", "absent"} THEN "AttributeError"
    ELSE IF event.timestamp = Absent THEN "KeyError"
    ELSE "none"

\* Mutant of TimeFeatures: no fallback, the fields of the failed parse are
\* used as they are.
TimeFeatures_NoFallback(event) ==
    LET dt == FromIsoFormat(event.timestamp) IN
    [hour_of_day |-> dt.hour,
     is_weekend  |-> IF dt.weekday >= 5 THEN 1 ELSE 0]

\* The try/except around the timestamp: hour_of_day and is_weekend of the
\* parsed timestamp, or 12 and 0 when fromisoformat raises ValueError.
TimeFeatures(event) ==
    LET dt == FromIsoFormat(event.timestamp) IN
    IF dt.ok
    THEN [hour_of_day |-> dt.hour,
          is_weekend  |-> IF dt.weekday >= 5 THEN 1 ELSE 0]
    ELSE [hour_of_day |-> 12, is_weekend |-> 0]

\* Mutant of SeenAfter: the IP is not remembered.
SeenAfter_Forgotten(ip, seen) == seen

\* if source_ip not in seen_ips: ip_is_new = 1; seen_ips.add(source_ip)
SeenAfter(ip, seen) == seen \cup {ip}

\* extract_features(event) with seen_ips = seen: the exception (or "none"),
\* the feature vector [hour_of_day, is_weekend, ip_is_new, user_is_rare]
\* and seen_ips afterwards.
extract_features(event, seen) ==
    IF ExtractRaises(event) # "none"
    THEN [exc |-> ExtractRaises(event), features |-> <<>>, seen |-> seen]
    ELSE LET tf == TimeFeatures(event)
             ip == DetailsSourceIp(event)
             ip_is_new == IF ip \notin seen THEN 1 ELSE 0
             user_is_rare == IF DetailsUser(event) \notin frequent_users
                             THEN 1 ELSE 0
         IN [exc |-> "none",
             features |-> <<tf.hour_of_day, tf.is_weekend, ip_is_new, user_is_rare>>,
             seen |-> SeenAfter(ip, seen)]

\* [extract_features(log) for log in logs], left to right, stopping at the
\* first exception: the vectors extracted, seen_ips afterwards, the exception.
RECURSIVE ExtractAll(_, _, _)
ExtractAll(batch, seen, acc) ==
    IF batch = <<>> THEN [exc |-> "none", rows |-> acc, seen |-> seen]
    ELSE LET r == extract_features(Head(batch), seen) IN
         IF r.exc # "none"
         THEN [exc |-> r.exc, rows |-> acc, seen |-> r.seen]
         ELSE ExtractAll(Tail(batch), r.seen, Append(acc, r.features))

Init ==
    /\ program \in {"main", "ai_engine", "run"}
    /\ run_pc = "check"
    /\ run_i = 0
    /\ svc_pc = [s \in ServiceNames |-> "unstarted"]
    /\ proc = [s \in ServiceNames |-> "none"]
    /\ processes = <<>>
    /\ log_data_store = <<>>
    /\ lock = "free"
    /\ model = None
    /\ scaler = None
    /\ seen_ips = {}
    /\ processed_log_count = 0
    /\ all_logs = <<>>
    /\ new_logs = <<>>
    /\ loop_pc = "sleep"
    /\ di = 0
    /\ conn_pc = [c \in Conns |-> "recv"]
    /\ conn_event = [c \in Conns |-> NoEvent]
    /\ printed = <<>>
    /\ fvecs = <<>>
    /\ batches = <<>>
    /\ loop_exc = "none"
    /\ tcp_sent = 0
    /\ logs = <<>>
    /\ alerts = <<>>
    /\ notified = <<>>
    /\ last_model_train_time = None
    /\ last_processed_timestamp = Epoch
    /\ logs_processed_since_retrain = 0
    /\ ai_pc = "start"
    /\ ai_new_logs = <<>>
    /\ ai_i = 0
    /\ alerts_to_insert = <<>>
    /\ trained_ids = {}
    /\ scored_ids = {}
    /\ ai_exc = "none"
    /\ train_result = "none"

(***************************************************************************)
(* main.py: handle_client_connection, one thread per connection            *)
(***************************************************************************)
\* Events stored or parsed and waiting for the lock (bounds the model).
Accepted ==
    Len(log_data_store)
    + Cardinality({c \in Conns : conn_pc[c] \in {"wait", "append"}})

\* What one conn.recv(1024) can return.  The producer writes JSON texts one
\* after the other into the stream and recv returns the bytes that have
\* arrived, at most 1024: a whole text, the first part of an event (the event
\* is longer than the read, or the rest has not arrived yet), the rest of
\* that event, or two events that arrived together.
Chunk(sh, p) == [shape |-> sh, payload |-> p]
Chunks ==
    {Chunk("whole", p) : p \in TcpPayloads}
      \cup {Chunk("head", E_ok), Chunk("two", E_ok)}
StreamChunks(pos) ==
    IF pos = "recv_rest" THEN {Chunk("tail", E_ok)} ELSE Chunks

\* json.loads(data.decode('utf-8')): the value parsed, or a value of kind
\* "invalid" for the JSONDecodeError raised on bytes that are not exactly
\* one JSON text (part of a text; two texts, "Extra data").
json_loads(chunk) ==
    IF chunk.shape = "whole" THEN chunk.payload ELSE E_garbage

\* JSON texts whose last byte is in the chunk.
TextsEnding(chunk) ==
    CASE chunk.shape = "whole" -> IF chunk.payload.kind = "invalid" THEN 0 ELSE 1
      [] chunk.shape = "head"  -> 0
      [] chunk.shape = "tail"  -> 1
      [] chunk.shape = "two"   -> 2

\* JSON texts received to the last byte or in part (bounds the model).
Sent ==
    tcp_sent + Cardinality({c \in Conns : conn_pc[c] = "recv_rest"})

\* One iteration of the handler's loop: data = conn.recv(1024);
\* json.loads(data): a value that parses is kept for the append, bytes that
\* do not parse are reported and dropped.
ConnRecv(c) ==
    /\ program = "main"
    /\ conn_pc[c] \in {"recv", "recv_rest"}
    /\ \E chunk \in StreamChunks(conn_pc[c]) :
         LET event == json_loads(chunk) IN
         /\ chunk.shape = "tail" \/
               Sent + (IF chunk.shape = "head" THEN 1 ELSE TextsEnding(chunk))
                  <= MaxStore
         /\ tcp_sent' = tcp_sent + TextsEnding(chunk)
         /\ IF event.kind = "invalid"
            THEN /\ conn_pc' = [conn_pc EXCEPT ![c] =
                                 IF chunk.shape = "head" THEN "recv_rest"
                                 ELSE "recv"]
                 /\ UNCHANGED conn_event
            ELSE /\ conn_pc' = [conn_pc EXCEPT ![c] = "wait"]
                 /\ conn_event' = [conn_event EXCEPT ![c] = event]
    /\ UNCHANGED <<program, runVars, dbVars, log_data_store, lock, model, scaler, seen_ips,
                   processed_log_count, all_logs, new_logs, loop_pc, di,
                   printed, fvecs, batches, loop_exc>>

\* if not data: break (the peer closed the connection)
ConnClose(c) ==
    /\ program = "main"
    /\ conn_pc[c] = "recv"
    /\ conn_pc' = [conn_pc EXCEPT ![c] = "closed"]
    /\ UNCHANGED <<program, runVars, dbVars, log_data_store, lock, model, scaler, seen_ips,
                   processed_log_count, all_logs, new_logs, loop_pc, di,
                   conn_event, printed, fvecs, batches, loop_exc, tcp_sent>>

\* Mutant of CanAcquire: the lock excludes nobody.
CanAcquire_Always == TRUE

\* lock = threading.Lock(): a thread enters "with lock:" only while no
\* thread holds it.
CanAcquire == lock = "free"

\* with lock: (acquire)
ConnAcquire(c) ==
    /\ program = "main"
    /\ conn_pc[c] = "wait"
    /\ CanAcquire
    /\ lock' = "conn"
    /\ conn_pc' = [conn_pc EXCEPT ![c] = "append"]
    /\ UNCHANGED <<program, runVars, dbVars, log_data_store, model, scaler, seen_ips,
                   processed_log_count, all_logs, new_logs, loop_pc, di,
                   conn_event, printed, fvecs, batches, loop_exc, tcp_sent>>

\* log_data_store.append(event), then the lock is released
ConnAppend(c) ==
    /\ program = "main"
    /\ conn_pc[c] = "append"
    /\ log_data_store' = Append(log_data_store, conn_event[c])
    /\ lock' = "free"
    /\ conn_pc' = [conn_pc EXCEPT ![c] = "recv"]
    /\ conn_event' = [conn_event EXCEPT ![c] = NoEvent]
    /\ UNCHANGED <<program, runVars, dbVars, model, scaler, seen_ips,
                   processed_log_count, all_logs, new_logs, loop_pc, di,
                   printed, fvecs, batches, loop_exc, tcp_sent>>

(***************************************************************************)
(* main.py: ai_engine_loop, train_model, detect_anomalies                  *)
(***************************************************************************)
\* The number of the training run that is about to publish.
NewRun == 1 + (IF model > scaler THEN model ELSE scaler)

\* How the two fits of a train_model execution end: both return, or
\* StandardScaler().fit raises, or model.fit raises (an exception of the
\* library, such as MemoryError).
FitOutcomes == {"ok", "scaler_fit_raises", "model_fit_raises"}

\* The IsolationForest object a training run has constructed but not fitted.
Unfitted(run) == 0 - run

\* The globals scaler and model after train_model's assignments: scaler is
\* assigned when StandardScaler().fit has returned, model is assigned the
\* new IsolationForest before model.fit is called.
Fitted(fit) ==
    [scaler |-> IF fit = "scaler_fit_raises" THEN scaler ELSE NewRun,
     model  |-> CASE fit = "ok"                -> NewRun
                  [] fit = "model_fit_raises"  -> Unfitted(NewRun)
                  [] fit = "scaler_fit_raises" -> model]

\* Mutant of AfterFitRaises: the exception is swallowed and the loop goes on
\* to its next tick.
AfterFitRaises_Swallowed == "sleep"

\* Where the loop stands after an exception inside train_model: neither
\* train_model nor the loop that calls it has a try/except, so the loop ends.
AfterFitRaises == "crashed"

\* time.sleep(...) returns; with lock: (acquire)
LoopWake ==
    /\ program = "main"
    /\ loop_pc = "sleep"
    /\ CanAcquire
    /\ lock' = "loop"
    /\ loop_pc' = "locked"
    /\ UNCHANGED <<program, runVars, dbVars, log_data_store, model, scaler, seen_ips,
                   processed_log_count, all_logs, new_logs, di, conn_pc,
                   conn_event, printed, fvecs, batches, loop_exc, tcp_sent>>

\* Mutant of LoopBranch: new events are scored whenever the tick does not
\* train.
LoopBranch_ScoresUntrained(all, new) ==
    IF Len(new) > 0
    THEN IF model = None /\ Len(all) >= TRAINING_DATA_SIZE THEN "train"
         ELSE "detect"
    ELSE "sleep"

\* The branch ai_engine_loop takes on the snapshot it has just taken.
LoopBranch(all, new) ==
    IF Len(new) > 0
    THEN IF model = None /\ Len(all) >= TRAINING_DATA_SIZE THEN "train"
         ELSE IF model # None THEN "detect"
         ELSE "sleep"
    ELSE "sleep"

\* Mutant of LockAfterSnapshot: the tick keeps the lock after the copy.
LockAfterSnapshot_Held == "loop"

\* The "with lock:" block of ai_engine_loop ends after the two assignments,
\* before the branch that trains or scores.
LockAfterSnapshot == "free"

\* all_logs = list(log_data_store); new_logs = all_logs[processed_log_count:];
\* the lock is released; then the branch on len(new_logs) and model.  The
\* locals of a tick that ends are dead and are cleared.
LoopSnapshot ==
    /\ program = "main"
    /\ loop_pc = "locked"
    /\ LET all == log_data_store
           new == SubSeq(all, processed_log_count + 1, Len(all))
       IN /\ loop_pc' = LoopBranch(all, new)
          /\ all_logs' = IF loop_pc' = "sleep" THEN <<>> ELSE all
          /\ new_logs' = IF loop_pc' = "sleep" THEN <<>> ELSE new
          /\ di' = IF loop_pc' = "detect" THEN 1 ELSE 0
    /\ lock' = LockAfterSnapshot
    /\ UNCHANGED <<program, runVars, dbVars, log_data_store, model, scaler, seen_ips,
                   processed_log_count, conn_pc, conn_event, printed, fvecs,
                   batches, loop_exc, tcp_sent>>

\* train_model(all_logs); processed_log_count = len(all_logs).  An exception
\* of extract_features or of a fit is caught nowhere: it ends ai_engine_loop.
LoopTrain ==
    /\ program = "main"
    /\ loop_pc = "train"
    /\ LET r == ExtractAll(all_logs, seen_ips, <<>>) IN
       /\ seen_ips' = r.seen
       /\ fvecs' = fvecs \o r.rows
       /\ IF r.exc # "none"
          THEN /\ loop_pc' = "crashed"
               /\ loop_exc' = r.exc
               /\ UNCHANGED <<model, scaler, processed_log_count, batches>>
          ELSE \E fit \in FitOutcomes :
               /\ scaler' = Fitted(fit).scaler
               /\ model' = Fitted(fit).model
               /\ IF fit = "ok"
                  THEN /\ processed_log_count' = Len(all_logs)
                       /\ batches' = Append(batches, <<"train", 1, Len(all_logs)>>)
                       /\ loop_pc' = "sleep"
                       /\ UNCHANGED loop_exc
                  ELSE /\ loop_pc' = AfterFitRaises
                       /\ loop_exc' = fit
                       /\ UNCHANGED <<processed_log_count, batches>>
    /\ all_logs' = <<>>
    /\ new_logs' = <<>>
    /\ UNCHANGED <<program, runVars, dbVars, log_data_store, lock, di, conn_pc, conn_event,
                   printed, tcp_sent>>

\* One iteration of detect_anomalies' loop over new_logs: the features, the
\* model's prediction (1 inlier, -1 outlier) and the alert printed for -1.
LoopDetectOne ==
    /\ program = "main"
    /\ loop_pc = "detect"
    /\ model # None /\ scaler # None
    /\ di <= Len(new_logs)
    /\ LET r == extract_features(new_logs[di], seen_ips) IN
       /\ seen_ips' = r.seen
       /\ IF r.exc # "none"
          THEN /\ loop_pc' = "crashed"
               /\ loop_exc' = r.exc
               /\ UNCHANGED <<di, printed, fvecs>>
          ELSE /\ fvecs' = Append(fvecs, r.features)
               /\ di' = di + 1
               /\ \E prediction \in {1, -1} :
                    printed' = IF prediction = -1
                               THEN Append(printed, processed_log_count + di)
                               ELSE printed
               /\ UNCHANGED <<loop_pc, loop_exc>>
    /\ UNCHANGED <<program, runVars, dbVars, log_data_store, lock, model, scaler,
                   processed_log_count, all_logs, new_logs, conn_pc,
                   conn_event, batches, tcp_sent>>

\* detect_anomalies returns (after the last event, or at once when model or
\* scaler is missing); processed_log_count = len(all_logs).
LoopDetectDone ==
    /\ program = "main"
    /\ loop_pc = "detect"
    /\ di > Len(new_logs) \/ model = None \/ scaler = None
    /\ processed_log_count' = Len(all_logs)
    /\ batches' = Append(batches, <<"score", processed_log_count + 1, Len(all_logs)>>)
    /\ loop_pc' = "sleep"
    /\ all_logs' = <<>>
    /\ new_logs' = <<>>
    /\ di' = 0
    /\ UNCHANGED <<program, runVars, dbVars, log_data_store, lock, model, scaler, seen_ips,
                   conn_pc, conn_event, printed, fvecs, loop_exc, tcp_sent>>

(***************************************************************************)
(* app.py: the /ingest route                                               *)
(***************************************************************************)
\* Bodies POSTed to /ingest: the TCP payloads, the well-formed event at a
\* later instant, events lacking hostname, event_type or details, and {}.
H_ok2      == Payload("object", "2024-01-08T10:00:00", "web-server-01",
                      "ssh_login_success", "object", "root", "10.0.0.5")
H_nohost   == Payload("object", "2024-01-08T10:00:00", Absent,
                      "ssh_login_success", "object", "root", "10.0.0.5")
H_noetype  == Payload("object", "2024-01-08T10:00:00", "web-server-01",
                      Absent, "object", "root", "10.0.0.5")
H_nodetail == Payload("object", "2024-01-08T10:00:00", "web-server-01",
                      "ssh_login_success", "absent", Absent, Absent)
H_empty    == Payload("object", Absent, Absent, Absent, "absent", Absent, Absent)

HttpPayloads == TcpPayloads \cup {H_ok2, H_nohost, H_noetype, H_nodetail,
                                  H_empty}

\* "not log_data": the empty object (and the other falsy JSON values).
Falsy(p) ==
    /\ p.kind = "object"
    /\ p.timestamp = Absent /\ p.hostname = Absent /\ p.event_type = Absent
    /\ p.details_kind = "absent"

\* ingest_log on body p, with the ClickHouse connection working or not: the
\* HTTP status and the row inserted (inserted = FALSE: nothing is).  Every
\* exception of the body is caught and answered with 500.
ingest_log(p, db_ok) ==
    LET reject(code) == [status |-> code, inserted |-> FALSE,
                         row |-> [timestamp |-> Epoch, user |-> "", source_ip |-> ""]]
    IN
    IF ~db_ok THEN reject(500)                           \* get_db() raises
    ELSE IF p.kind = "invalid" THEN reject(500)          \* request.json raises
    ELSE IF Falsy(p) THEN reject(400)
    ELSE IF p.kind # "object" THEN reject(500)           \* TypeError
    ELSE IF p.timestamp = Absent THEN reject(500)        \* KeyError
    ELSE IF ~FromIsoFormat(p.timestamp).ok THEN reject(500)   \* ValueError
    ELSE IF p.hostname = Absent THEN reject(500)         \* KeyError
    ELSE IF p.event_type = Absent THEN reject(500)       \* KeyError
    ELSE IF p.details_kind = "absent" THEN reject(500)   \* KeyError
    ELSE IF p.details_kind # "object" THEN reject(500)   \* AttributeError
    ELSE [status |-> 200, inserted |-> TRUE,
          row |-> [timestamp |-> Instant(p.timestamp),
                   user |-> IF p.user = Absent THEN "N/A" ELSE p.user,
                   source_ip |-> IF p.source_ip = Absent THEN "N/A"
                                 ELSE p.source_ip]]

\* One request to /ingest (while the orchestrator has not shut the
\* services down).
IngestLog ==
    /\ program = "ai_engine"
    /\ ai_pc # "terminated"
    /\ \E p \in HttpPayloads, db_ok \in BOOLEAN :
         LET r == ingest_log(p, db_ok) IN
         IF r.inserted
         THEN /\ Len(logs) < MaxLogs
              /\ logs' = Append(logs, r.row)
         ELSE UNCHANGED logs
    /\ UNCHANGED <<program, runVars, model, scaler, mainVars, alerts, notified,
                   last_model_train_time, last_processed_timestamp,
                   logs_processed_since_retrain, ai_pc, ai_new_logs, ai_i,
                   alerts_to_insert, trained_ids, scored_ids, ai_exc,
                   train_result>>

(***************************************************************************)
(* ai_engine.py                                                            *)
(***************************************************************************)
RowIds == 1..Len(logs)

\* Mutant of FirstByTimestamp: the row that sorts last (ORDER BY ... DESC).
FirstByTimestamp_Latest(ids) ==
    CHOOSE a \in ids : \A b \in ids :
        \/ logs[a].timestamp > logs[b].timestamp
        \/ logs[a].timestamp = logs[b].timestamp /\ a >= b

\* The row of ids that sorts first by (timestamp, insertion order).
FirstByTimestamp(ids) ==
    CHOOSE a \in ids : \A b \in ids :
        \/ logs[a].timestamp < logs[b].timestamp
        \/ logs[a].timestamp = logs[b].timestamp /\ a <= b

RECURSIVE OrderByTimestamp(_)
OrderByTimestamp(ids) ==
    IF ids = {} THEN <<>>
    ELSE LET a == FirstByTimestamp(ids)
         IN <<a>> \o OrderByTimestamp(ids \ {a})

\* Mutant of get_new_logs: the cursor's own timestamp is read again (>=).
get_new_logs_inclusive(last) ==
    OrderByTimestamp({a \in RowIds : logs[a].timestamp >= last})

\* SELECT ... FROM logs WHERE timestamp > last ORDER BY timestamp ASC
get_new_logs(last) ==
    OrderByTimestamp({a \in RowIds : logs[a].timestamp > last})

\* SELECT ... FROM logs ORDER BY timestamp DESC LIMIT TRAINING_DATA_SIZE: the
\* possible results, as sets of rows (rows of equal timestamp come in any
\* order, so any of them may be the ones cut off by the LIMIT).
get_training_data ==
    LET n == IF Len(logs) < AI_TRAINING_DATA_SIZE THEN Len(logs)
             ELSE AI_TRAINING_DATA_SIZE
    IN {S \in SUBSET RowIds :
          /\ Cardinality(S) = n
          /\ \A a \in S , b \in RowIds \ S :
                logs[a].timestamp >= logs[b].timestamp}

\* dt.hour and dt.weekday() of a row's timestamp (the instants of
\* FromIsoFormat).
AiTimeOf(t) ==
    CASE t = 1 -> [hour |-> 3, weekday |-> 5]
      [] t = 2 -> [hour |-> 10, weekday |-> 0]
      [] OTHER -> [hour |-> 11, weekday |-> 0]

\* ai_engine.extract_features on one row of the batch:
\* [hour_of_day, is_weekend, user_is_rare], with
\* user_is_rare = 1 if user in ['root', 'guest'] else 0.
ai_extract_features(row) ==
    LET dt == AiTimeOf(row.timestamp) IN
    <<dt.hour,
      IF dt.weekday >= 5 THEN 1 ELSE 0,
      IF row.user \in {"root", "guest"} THEN 1 ELSE 0>>

\* Module start: Client(...) and SELECT 1; a failure prints FATAL and exits.
AiStart ==
    /\ program = "ai_engine"
    /\ ai_pc = "start"
    /\ \E connected \in BOOLEAN :
         ai_pc' = IF connected THEN "sleep" ELSE "exited"
    /\ UNCHANGED <<program, runVars, model, scaler, mainVars, logs, alerts, notified,
                   last_model_train_time, last_processed_timestamp,
                   logs_processed_since_retrain, ai_new_logs, ai_i,
                   alerts_to_insert, trained_ids, scored_ids, ai_exc,
                   train_result>>

\* Mutant of Insufficient: train_model fits on whatever the query returns.
Insufficient_Never(batch) == FALSE

\* if len(logs) < TRAINING_DATA_SIZE: ... return False
Insufficient(batch) == Cardinality(batch) < AI_TRAINING_DATA_SIZE

\* train_model() called by main_loop, with the store answering the query
\* (store_ok) or failing (the exception is caught nowhere and ends
\* main_loop); fewer rows than TRAINING_DATA_SIZE return False; otherwise
\* scaler and model are fitted on the batch (an exception of a fit ends
\* main_loop too).
TrainModel(store_ok) ==
      IF ~store_ok
      THEN /\ ai_pc' = "crashed"
           /\ ai_exc' = "get_training_data"
           /\ UNCHANGED <<model, scaler, last_model_train_time, trained_ids,
                          train_result>>
      ELSE \E batch \in get_training_data :
           IF Insufficient(batch)
           THEN /\ train_result' = "False"
                /\ UNCHANGED <<model, scaler, last_model_train_time,
                               trained_ids, ai_pc, ai_exc>>
           ELSE \E fit \in FitOutcomes :
                /\ scaler' = Fitted(fit).scaler
                /\ model' = Fitted(fit).model
                /\ IF fit = "ok"
                   THEN /\ last_model_train_time' = NewRun
                        /\ trained_ids' = trained_ids \cup batch
                        /\ train_result' = "True"
                        /\ UNCHANGED <<ai_pc, ai_exc>>
                   ELSE /\ ai_pc' = AfterFitRaises
                        /\ ai_exc' = fit
                        /\ UNCHANGED <<last_model_train_time, trained_ids,
                                       train_result>>

\* main_loop, a tick with model None: train_model(); continue.  store_ok,
\* here and below: whether the tick's store operation succeeds.
AiTrainInitial(store_ok) ==
    /\ program = "ai_engine"
    /\ ai_pc = "sleep"
    /\ model = None
    /\ TrainModel(store_ok)
    /\ UNCHANGED <<program, runVars, mainVars, logs, alerts, notified,
                   last_processed_timestamp, logs_processed_since_retrain,
                   ai_new_logs, ai_i, alerts_to_insert, scored_ids>>

\* main_loop, a tick with the retrain count reached: train_model(); the
\* counter is reset; continue
AiRetrain(store_ok) ==
    /\ program = "ai_engine"
    /\ ai_pc = "sleep"
    /\ model # None
    /\ logs_processed_since_retrain >= MODEL_RETRAIN_LOG_COUNT
    /\ TrainModel(store_ok)
    /\ logs_processed_since_retrain' =
          IF ai_pc' = "crashed" THEN logs_processed_since_retrain ELSE 0
    /\ UNCHANGED <<program, runVars, mainVars, logs, alerts, notified,
                   last_processed_timestamp, ai_new_logs, ai_i,
                   alerts_to_insert, scored_ids>>

\* main_loop, otherwise: new_logs = get_new_logs(last_processed_timestamp)
\* and, when there are any, the call of detect_and_alert(new_logs).
AiFetch(store_ok) ==
    /\ program = "ai_engine"
    /\ ai_pc = "sleep"
    /\ model # None
    /\ logs_processed_since_retrain < MODEL_RETRAIN_LOG_COUNT
    /\   IF ~store_ok
         THEN /\ ai_pc' = "crashed"
              /\ ai_exc' = "get_new_logs"
              /\ UNCHANGED <<ai_new_logs, ai_i, scored_ids>>
         ELSE LET new == get_new_logs(last_processed_timestamp) IN
              IF new # <<>>
              THEN /\ ai_pc' = "scan"
                   /\ ai_new_logs' = new
                   /\ ai_i' = 1
                   /\ scored_ids' = IF model # None /\ scaler # None
                                    THEN scored_ids \cup {new[k] : k \in 1..Len(new)}
                                    ELSE scored_ids
                   /\ UNCHANGED ai_exc
              ELSE UNCHANGED <<ai_pc, ai_new_logs, ai_i, scored_ids, ai_exc>>
    /\ UNCHANGED <<program, runVars, model, scaler, mainVars, logs, alerts, notified,
                   last_model_train_time, last_processed_timestamp,
                   logs_processed_since_retrain, alerts_to_insert,
                   trained_ids, train_result>>

\* requests.post(FLASK_NOTIFY_URL, ..., timeout=2): the POST made, with its
\* outcome ("ok", or "RequestException" for a refused connection or a
\* timeout).
Notify(row, outcome) == Append(notified, <<row, outcome>>)

\* Mutant of AfterNotify: the RequestException is not caught.
AfterNotify_Uncaught(outcome) ==
    IF outcome = "RequestException" THEN "crashed" ELSE "scan"

\* try: requests.post(...) except RequestException: print(...): where
\* detect_and_alert continues after the POST.  The exception is caught, so
\* the loop over new_logs goes on whatever the outcome.
AfterNotify(outcome) == "scan"

\* One iteration of detect_and_alert's loop: for a prediction of -1 the
\* alert is added to alerts_to_insert and the subscriber is notified.
AiScanOne ==
    /\ program = "ai_engine"
    /\ ai_pc = "scan"
    /\ model # None /\ scaler # None
    /\ ai_i <= Len(ai_new_logs)
    /\ \E prediction \in {1, -1} :
         IF prediction = -1
         THEN /\ alerts_to_insert' = Append(alerts_to_insert, ai_new_logs[ai_i])
              /\ \E outcome \in {"ok", "RequestException"} :
                   /\ notified' = Notify(ai_new_logs[ai_i], outcome)
                   /\ ai_pc' = AfterNotify(outcome)
                   /\ ai_exc' = IF ai_pc' = "crashed" THEN "notify" ELSE ai_exc
         ELSE UNCHANGED <<alerts_to_insert, notified, ai_pc, ai_exc>>
    /\ ai_i' = ai_i + 1
    /\ UNCHANGED <<program, runVars, model, scaler, mainVars, logs, alerts,
                   last_model_train_time, last_processed_timestamp,
                   logs_processed_since_retrain, ai_new_logs,
                   trained_ids, scored_ids, train_result>>

\* Mutant of NewCursor: the timestamp of the first row of the batch.
NewCursor_First(new) == logs[new[1]].timestamp

\* last_processed_timestamp = new_logs[-1][0]
NewCursor(new) == logs[new[Len(new)]].timestamp

\* The end of detect_and_alert (the INSERT INTO alerts, when there is
\* anything to insert) and, back in main_loop, the cursor and the counter.
\* A failing insert is caught nowhere and ends main_loop.
AiFinish(store_ok) ==
    /\ program = "ai_engine"
    /\ ai_pc = "scan"
    /\ ai_i > Len(ai_new_logs) \/ model = None \/ scaler = None
    /\   IF alerts_to_insert # <<>> /\ ~store_ok
         THEN /\ ai_pc' = "crashed"
              /\ ai_exc' = "insert_alerts"
              /\ UNCHANGED <<alerts, last_processed_timestamp,
                             logs_processed_since_retrain, ai_new_logs, ai_i,
                             alerts_to_insert>>
         ELSE /\ alerts' = alerts \o alerts_to_insert
              /\ last_processed_timestamp' = NewCursor(ai_new_logs)
              /\ logs_processed_since_retrain' =
                    logs_processed_since_retrain + Len(ai_new_logs)
              /\ ai_pc' = "sleep"
              /\ ai_new_logs' = <<>>
              /\ ai_i' = 0
              /\ alerts_to_insert' = <<>>
              /\ UNCHANGED ai_exc
    /\ UNCHANGED <<program, runVars, model, scaler, mainVars, logs, notified,
                   last_model_train_time, trained_ids, scored_ids,
                   train_result>>

\* The orchestrator's signal_handler calls p.terminate() on the services it
\* has started, app.py and ai_engine.py among them.  ai_engine.py installs
\* no handler for SIGTERM, so the process ends at the instruction it is at:
\* before the loop, between two ticks or inside detect_and_alert.
AiTerminate ==
    /\ program = "ai_engine"
    /\ ai_pc \in {"start", "sleep", "scan"}
    /\ ai_pc' = "terminated"
    /\ UNCHANGED <<program, runVars, model, scaler, mainVars, logs, alerts, notified,
                   last_model_train_time, last_processed_timestamp,
                   logs_processed_since_retrain, ai_new_logs, ai_i,
                   alerts_to_insert, trained_ids, scored_ids, ai_exc,
                   train_result>>

NextAiEngine ==
    \/ IngestLog
    \/ AiTerminate
    \/ AiStart
    \/ \E store_ok \in BOOLEAN : AiTrainInitial(store_ok)
    \/ \E store_ok \in BOOLEAN : AiRetrain(store_ok)
    \/ \E store_ok \in BOOLEAN : AiFetch(store_ok)
    \/ AiScanOne
    \/ \E store_ok \in BOOLEAN : AiFinish(store_ok)

(***************************************************************************)
(* run.py: the orchestrator                                                *)
(***************************************************************************)
\* main: the ClickHouse check; a failure prints FATAL and sys.exit(1).
RunCheck ==
    /\ program = "run"
    /\ run_pc = "check"
    /\ \E connected \in BOOLEAN :
         /\ run_pc' = IF connected THEN "start" ELSE "exited"
         /\ run_i' = IF connected THEN 1 ELSE run_i
    /\ UNCHANGED <<program, model, scaler, mainVars, dbVars, svc_pc, proc,
                   processes>>

\* main: one iteration of "for name, command in COMMANDS.items()":
\* time.sleep(0.1), the thread running run_command is created and started.
RunStartThread ==
    /\ program = "run"
    /\ run_pc = "start"
    /\ IF run_i <= Len(Services)
       THEN /\ svc_pc' = [svc_pc EXCEPT ![Services[run_i]] = "spawn"]
            /\ run_i' = run_i + 1
            /\ UNCHANGED run_pc
       ELSE /\ run_pc' = "join"
            /\ UNCHANGED <<svc_pc, run_i>>
    /\ UNCHANGED <<program, model, scaler, mainVars, dbVars, proc, processes>>

\* main: every thread.join() has returned; main returns.
RunJoined ==
    /\ program = "run"
    /\ run_pc = "join"
    /\ \A s \in ServiceNames : svc_pc[s] = "done"
    /\ run_pc' = "exited"
    /\ UNCHANGED <<program, model, scaler, mainVars, dbVars, run_i, svc_pc,
                   proc, processes>>

\* run_command: subprocess.Popen(command, ...) starts the child, or raises
\* (caught, the thread ends without a child).
SvcPopen(s) ==
    /\ program = "run"
    /\ svc_pc[s] = "spawn"
    /\ \E started \in BOOLEAN :
         /\ proc' = [proc EXCEPT ![s] = IF started THEN "running" ELSE @]
         /\ svc_pc' = [svc_pc EXCEPT ![s] = IF started THEN "append" ELSE "done"]
    /\ UNCHANGED <<program, model, scaler, mainVars, dbVars, run_pc, run_i,
                   processes>>

\* run_command: processes.append(process)
SvcAppend(s) ==
    /\ program = "run"
    /\ svc_pc[s] = "append"
    /\ processes' = Append(processes, s)
    /\ svc_pc' = [svc_pc EXCEPT ![s] = "stream"]
    /\ UNCHANGED <<program, model, scaler, mainVars, dbVars, run_pc, run_i,
                   proc>>

\* run_command: the child's output has ended, process.wait() has returned.
SvcFinish(s) ==
    /\ program = "run"
    /\ svc_pc[s] = "stream"
    /\ proc[s] = "exited"
    /\ svc_pc' = [svc_pc EXCEPT ![s] = "done"]
    /\ UNCHANGED <<program, model, scaler, mainVars, dbVars, run_pc, run_i,
                   proc, processes>>

\* A child process ends (by itself, or on a SIGTERM it was sent earlier).
ProcExit(s) ==
    /\ program = "run"
    /\ proc[s] = "running"
    /\ proc' = [proc EXCEPT ![s] = "exited"]
    /\ UNCHANGED <<program, model, scaler, mainVars, dbVars, run_pc, run_i,
                   svc_pc, processes>>

\* SIGINT: the main thread, wherever it is in main, enters signal_handler.
Sigint ==
    /\ program = "run"
    /\ run_pc \in {"check", "start", "join"}
    /\ run_pc' = "term"
    /\ run_i' = 1
    /\ UNCHANGED <<program, model, scaler, mainVars, dbVars, svc_pc, proc,
                   processes>>

\* signal_handler, first loop: for p in processes: if p.poll() is None:
\* p.terminate().  The iteration reads the list as it is at each step.  A
\* child that was sent SIGTERM ends now or later (ProcExit) or not at all.
\* After the loop: time.sleep(2).
HandlerTerminate ==
    /\ program = "run"
    /\ run_pc = "term"
    /\ IF run_i <= Len(processes)
       THEN /\ \E ends_now \in BOOLEAN :
                 proc' = [proc EXCEPT ![processes[run_i]] =
                            IF @ = "running" /\ ends_now THEN "exited" ELSE @]
            /\ run_i' = run_i + 1
            /\ UNCHANGED run_pc
       ELSE /\ run_pc' = "kill"
            /\ run_i' = 1
            /\ UNCHANGED proc
    /\ UNCHANGED <<program, model, scaler, mainVars, dbVars, svc_pc, processes>>

\* signal_handler, second loop: for p in processes: if p.poll() is None:
\* p.kill().  After the loop: sys.exit(0).
HandlerKill ==
    /\ program = "run"
    /\ run_pc = "kill"
    /\ IF run_i <= Len(processes)
       THEN /\ proc' = [proc EXCEPT ![processes[run_i]] =
                          IF @ = "running" THEN "exited" ELSE @]
            /\ run_i' = run_i + 1
            /\ UNCHANGED run_pc
       ELSE /\ run_pc' = "done"
            /\ UNCHANGED <<proc, run_i>>
    /\ UNCHANGED <<program, model, scaler, mainVars, dbVars, svc_pc, processes>>

NextRun ==
    \/ RunCheck
    \/ RunStartThread
    \/ RunJoined
    \/ \E s \in ServiceNames : SvcPopen(s)
    \/ \E s \in ServiceNames : SvcAppend(s)
    \/ \E s \in ServiceNames : SvcFinish(s)
    \/ \E s \in ServiceNames : ProcExit(s)
    \/ Sigint
    \/ HandlerTerminate
    \/ HandlerKill

NextMain ==
    \/ \E c \in Conns : ConnRecv(c)
    \/ \E c \in Conns : ConnClose(c)
    \/ \E c \in Conns : ConnAcquire(c)
    \/ \E c \in Conns : ConnAppend(c)
    \/ LoopWake
    \/ LoopSnapshot
    \/ LoopTrain
    \/ LoopDetectOne
    \/ LoopDetectDone

Next == NextMain \/ NextAiEngine \/ NextRun

Spec == Init /\ [][Next]_vars

(***************************************************************************)
(* Specifications of one program alone, with the fairness its scheduling   *)
(* gives: a handler thread that holds the lock appends and releases it,    *)
(* the detection loop's thread keeps running (its sleep returns and it     *)
(* gets the lock when the lock keeps becoming free), and main_loop keeps   *)
(* ticking as long as no exception has ended it (a store failure may       *)
(* happen at any tick, but no tick is bound to fail).                      *)
(***************************************************************************)
InitMain == Init /\ program = "main"
InitAiEngine == Init /\ program = "ai_engine"

LoopStep ==
    LoopWake \/ LoopSnapshot \/ LoopTrain \/ LoopDetectOne \/ LoopDetectDone

\* The steps of main_loop while the store answers.
AiStep ==
    \/ AiStart
    \/ AiTrainInitial(TRUE) \/ AiRetrain(TRUE) \/ AiFetch(TRUE)
    \/ AiScanOne
    \/ AiFinish(TRUE)

FairMain ==
    /\ InitMain
    /\ [][NextMain]_vars
    /\ SF_vars(LoopStep)
    /\ \A c \in Conns : WF_vars(ConnAcquire(c) \/ ConnAppend(c))

FairAiEngine ==
    /\ InitAiEngine
    /\ [][NextAiEngine]_vars
    /\ WF_vars(AiStep)

(***************************************************************************)
(* Claims                                                                  *)
(***************************************************************************)
Occurrences(seq, x) == Cardinality({k \in DOMAIN seq : seq[k] = x})
NotifiedRows == [k \in DOMAIN notified |-> notified[k][1]]

\* C1: in ai_engine.main_loop no row of logs is both fitted on by a training
\* run and passed to detect_and_alert.
C1_TrainedOrScoredNotBoth == trained_ids \cap scored_ids = {}

\* C2: an event produces at most one alert: no store index is printed twice
\* by main.detect_anomalies, and no row of logs is notified twice or put
\* twice into the alerts table (or the pending insert) by ai_engine.
C2_AtMostOneAlert ==
    /\ \A k \in 1..Len(log_data_store) : Occurrences(printed, k) <= 1
    /\ \A a \in RowIds :
         /\ Occurrences(alerts \o alerts_to_insert, a) <= 1
         /\ Occurrences(NotifiedRows, a) <= 1

\* C2 witness: a later tick of main_loop is scoring rows while the alerts
\* table already holds an alert of an earlier tick.
C2_Witness ==
    /\ program = "ai_engine"
    /\ Len(alerts) >= 1
    /\ ai_pc = "scan" /\ ai_i > 1

\* The batches of main.ai_engine_loop follow one another from the first
\* event up to the cursor, none empty.
BatchesPartition ==
    /\ \A j \in 1..Len(batches) :
         /\ batches[j][2] <= batches[j][3]
         /\ batches[j][2] = IF j = 1 THEN 1 ELSE batches[j - 1][3] + 1
    /\ processed_log_count =
          IF batches = <<>> THEN 0 ELSE batches[Len(batches)][3]
    /\ processed_log_count <= Len(log_data_store)

\* C3: in main.py the processed batches partition the store in append order,
\* and once the store holds TRAINING_DATA_SIZE events every stored event is
\* eventually inside a processed batch.
C3_PartitionAndProgress ==
    /\ []BatchesPartition
    /\ \A k \in 1..MaxStore :
         [](Len(log_data_store) >= k /\ Len(log_data_store) >= TRAINING_DATA_SIZE
              => <>(processed_log_count >= k))

\* C4: in the database pipeline, once the model is trained every row of logs
\* is eventually returned by get_new_logs (as long as main_loop runs).
C4_EveryRowEventuallyReturned ==
    \A a \in 1..MaxLogs :
       [](a \in RowIds /\ model # None
            => <>(a \in scored_ids \/ ai_pc \in {"crashed", "terminated"}))

\* C5: main.ai_engine_loop stays untrained with the cursor at 0 while the
\* store is short of TRAINING_DATA_SIZE; the tick that sees that many trains,
\* moves the cursor past all it saw, scores nothing, and no alert is ever
\* printed for an event of the training batch.
C5_InitialTraining ==
    /\ [](model = None => processed_log_count = 0)
    /\ [][loop_pc = "locked" /\ loop_pc' # "locked"
            /\ Len(log_data_store) < TRAINING_DATA_SIZE
          => model' = None /\ processed_log_count' = 0 /\ loop_pc' = "sleep"]_vars
    /\ [][loop_pc = "locked" /\ loop_pc' # "locked" /\ model = None
            /\ Len(log_data_store) >= TRAINING_DATA_SIZE
          => loop_pc' = "train"]_vars
    /\ [][loop_pc = "train" /\ loop_pc' # "train"
          => /\ model' # None
             /\ processed_log_count' = Len(all_logs)
             /\ printed' = printed]_vars
    /\ [](\A j \in 1..Len(printed) :
            batches # <<>> => printed[j] > batches[1][3])

\* A submission carries timestamp, hostname, event_type and a details object
\* with user and source_ip.
Complete(p) ==
    /\ p.kind = "object"
    /\ p.timestamp # Absent /\ p.hostname # Absent /\ p.event_type # Absent
    /\ p.details_kind = "object"
    /\ p.user # Absent /\ p.source_ip # Absent

\* C6: the gateways store nothing from a submission that lacks a required
\* field: log_data_store holds complete events only, and no row of logs
\* carries the defaults that stand for a missing user or source_ip.
C6_OnlyCompleteSubmissionsStored ==
    /\ \A k \in 1..Len(log_data_store) : Complete(log_data_store[k])
    /\ \A a \in RowIds : logs[a].user # "N/A" /\ logs[a].source_ip # "N/A"

\* A complete submission whose timestamp does not parse.
UnparsableTimestamp(p) == Complete(p) /\ ~FromIsoFormat(p.timestamp).ok

\* C7 as stated: a complete submission with an unparsable timestamp is stored
\* by both gateways and gets the neutral time features.
C7_AcceptedByBothGateways ==
    /\ program = "ai_engine" =>
         \A p \in HttpPayloads :
            UnparsableTimestamp(p) =>
               ingest_log(p, TRUE).status = 200 /\ ingest_log(p, TRUE).inserted
    /\ \A k \in 1..Len(fvecs) :
         UnparsableTimestamp(log_data_store[k])
           => fvecs[k][1] = 12 /\ fvecs[k][2] = 0

\* C7 amended: main.py stores such a submission and extract_features gives it
\* hour_of_day = 12, is_weekend = 0, and it is never the event on which a
\* batch fails; /ingest answers it with 500 and inserts nothing, so every row
\* of logs has a parsed timestamp.
C7_NeutralInMainRejectedByIngest ==
    /\ \A k \in 1..Len(fvecs) :
         UnparsableTimestamp(log_data_store[k])
           => fvecs[k][1] = 12 /\ fvecs[k][2] = 0
    /\ loop_exc \in {"AttributeError", "KeyError"} =>
         ~UnparsableTimestamp(log_data_store[Len(fvecs) + 1])
    /\ \A p \in HttpPayloads :
         UnparsableTimestamp(p) =>
            ingest_log(p, TRUE).status = 500 /\ ~ingest_log(p, TRUE).inserted
    /\ \A a \in RowIds : logs[a].timestamp > Epoch

\* C7 witness: an event with timestamp "not-a-date" is in log_data_store, the
\* model was trained on a batch holding it, and its features were extracted.
C7_Witness ==
    /\ model # None
    /\ \E k \in 1..Len(fvecs) :
         /\ log_data_store[k] = E_badts
         /\ fvecs[k][1] = 12 /\ fvecs[k][2] = 0

\* C8: ai_engine_loop never terminates, whatever events the TCP handler has
\* accepted into log_data_store.
C8_LoopNeverTerminates == loop_exc \notin {"AttributeError", "KeyError"}

\* C9: a failing store operation after startup does not terminate main_loop.
C9_StoreFailureSkipsTick ==
    ai_exc \notin {"get_training_data", "get_new_logs", "insert_alerts"}

\* C10: a failed notification is dropped without retry and changes nothing
\* else: it never ends main_loop, no row is notified a second time, and once
\* the tick is over every row notified (successfully or not) is in the alerts
\* table and the cursor has moved past it.
C10_NotifyFailureIsolated ==
    /\ ai_exc # "notify"
    /\ \A a \in RowIds : Occurrences(NotifiedRows, a) <= 1
    /\ ai_pc = "scan" =>
         \A k \in 1..Len(notified) :
            \/ Occurrences(alerts, notified[k][1]) = 1
            \/ Occurrences(alerts_to_insert, notified[k][1]) = 1
    /\ ai_pc = "sleep" =>
         \A k \in 1..Len(notified) :
            /\ Occurrences(alerts, notified[k][1]) = 1
            /\ logs[notified[k][1]].timestamp <= last_processed_timestamp

\* C10 witness: a tick is over in which one notification failed and a later
\* one of the same batch succeeded; both alerts are in the alerts table.
C10_Witness ==
    /\ ai_pc = "sleep"
    /\ \E j, k \in 1..Len(notified) :
         /\ j < k
         /\ notified[j][2] = "RequestException"
         /\ notified[k][2] = "ok"
         /\ Occurrences(alerts, notified[j][1]) = 1
         /\ Occurrences(alerts, notified[k][1]) = 1

\* A scoring call is running: detect_anomalies in main.py, detect_and_alert
\* in ai_engine.py.
Scoring ==
    \/ program = "main" /\ loop_pc = "detect"
    \/ program = "ai_engine" /\ ai_pc = "scan"

\* C11: whenever a scoring call runs, the globals scaler and model are the
\* fitted pair published by one and the same train_model execution; a
\* train_model execution that failed part-way is never followed by scoring.
C11_SnapshotOfOneTrainingRun ==
    /\ Scoring => scaler # None /\ model = scaler
    /\ model # scaler => ~Scoring /\ (loop_pc = "crashed" \/ ai_pc = "crashed")

\* C11 witness: detect_and_alert is scoring with the pair published by the
\* second training run (a retrain).
C11_Witness ==
    /\ program = "ai_engine" /\ ai_pc = "scan" /\ ai_i > 1
    /\ model = 2 /\ scaler = 2

\* A train_model execution has failed between its two assignments: scaler is
\* the new one, model is not a fitted model of the same run.
C11_PartWayFailureReached == scaler # None /\ model # scaler

\* C12: ai_engine.train_model called with fewer than TRAINING_DATA_SIZE rows
\* in the logs table returns False and leaves model, scaler and
\* last_model_train_time as they were; an untrained main_loop stays untrained
\* with the cursor at datetime(1970, 1, 1), and its next tick calls
\* train_model again.
C12_InsufficientDataLeavesUntrained ==
    /\ [](program = "ai_engine" /\ Len(logs) < AI_TRAINING_DATA_SIZE =>
            /\ model = None /\ scaler = None /\ last_model_train_time = None
            /\ train_result # "True")
    /\ [](program = "ai_engine" /\ model = None =>
            /\ last_model_train_time = None
            /\ last_processed_timestamp = Epoch
            /\ logs_processed_since_retrain = 0
            /\ scored_ids = {})
    /\ [](program = "ai_engine" /\ model = None /\ ai_pc = "sleep"
            => ENABLED AiTrainInitial(TRUE))
    /\ [][train_result # "False" /\ train_result' = "False"
            => /\ Len(logs) < AI_TRAINING_DATA_SIZE
               /\ UNCHANGED <<model, scaler, last_model_train_time,
                              last_processed_timestamp>>
               /\ ai_pc' = "sleep"]_vars

\* C12 witness: train_model has returned False with one row in the logs
\* table; main_loop is untrained and between two ticks.
C12_Witness ==
    /\ program = "ai_engine" /\ ai_pc = "sleep"
    /\ train_result = "False"
    /\ Len(logs) = AI_TRAINING_DATA_SIZE - 1
    /\ model = None

\* The source IP main.extract_features read from the k-th event it was called
\* on.  ai_engine_loop extracts the stored events in store order, each once,
\* so that is the k-th event of log_data_store.
ExtractedIp(k) == DetailsSourceIp(log_data_store[k])

\* C13: over the calls of main.extract_features, ip_is_new is 1 on the first
\* call for a source IP and 0 on every later call for it; seen_ips only grows
\* and is exactly the set of source IPs of the events extracted so far.
C13_NoveltyFeature ==
    /\ [](\A k \in 1..Len(fvecs) :
            fvecs[k][3] = IF \E j \in 1..(k - 1) : ExtractedIp(j) = ExtractedIp(k)
                          THEN 0 ELSE 1)
    /\ [](seen_ips = {ExtractedIp(k) : k \in 1..Len(fvecs)})
    /\ [][seen_ips \subseteq seen_ips']_vars

\* C13 witness: three events were extracted, two source IPs among them; one
\* IP got ip_is_new = 1 on its first event and 0 on a later one.
C13_Witness ==
    /\ Len(fvecs) = 3
    /\ Cardinality(seen_ips) = 2
    /\ \E j, k \in 1..Len(fvecs) :
         /\ j < k /\ ExtractedIp(j) = ExtractedIp(k)
         /\ fvecs[j][3] = 1 /\ fvecs[k][3] = 0

\* C14: in both loops no scoring call runs while model is None, nothing is
\* scored before a train_model execution has succeeded, and model is never
\* set back to None.
C14_NoScoringWithoutModel ==
    /\ [](Scoring => model # None /\ scaler # None)
    /\ [](model = None =>
            /\ printed = <<>> /\ scored_ids = {}
            /\ alerts = <<>> /\ notified = <<>>
            /\ \A j \in 1..Len(batches) : batches[j][1] # "score")
    /\ [](batches # <<>> \/ train_result = "True" => model # None)
    /\ [][model # None => model' # None]_vars

\* C14 witness: main.detect_anomalies is scoring an event that arrived after
\* the training batch, with the model of that training.
C14_Witness ==
    /\ program = "main" /\ loop_pc = "detect" /\ di > 1
    /\ batches # <<>> /\ batches[1][1] = "train"
    /\ model = 1

\* C15: every JSON text a producer has sent over a TCP connection is in
\* log_data_store or in the hands of the handler that is about to append
\* it, however the stream was cut into reads, and none is there twice; and
\* /ingest answers 200 only when it has inserted the row.
C15_EveryEventAppendedOnce ==
    /\ program = "main" => tcp_sent = Accepted
    /\ \A p \in HttpPayloads, db_ok \in BOOLEAN :
         ingest_log(p, db_ok).status = 200 => ingest_log(p, db_ok).inserted

IsPrefix(a, b) == Len(a) <= Len(b) /\ SubSeq(b, 1, Len(a)) = a

\* The handler threads inside "with lock:".
Holders == {c \in Conns : conn_pc[c] = "append"}

\* C16: in main.py at most one thread is inside "with lock:" and only that
\* thread reads or writes log_data_store; the snapshot of a tick is a prefix
\* of the store; the store only grows at its end; and a handler appends the
\* event it holds before it receives its next one, so the events of one
\* connection are stored in the order they were received.
C16_StoreConsistency ==
    /\ [](program = "main" =>
            /\ Cardinality(Holders) + (IF loop_pc = "locked" THEN 1 ELSE 0) <= 1
            /\ (lock = "conn") = (Holders # {})
            /\ (lock = "loop") = (loop_pc = "locked")
            /\ lock \in {"free", "conn", "loop"})
    /\ [](loop_pc \in {"train", "detect"} =>
            /\ IsPrefix(all_logs, log_data_store)
            /\ new_logs = SubSeq(all_logs, processed_log_count + 1, Len(all_logs)))
    /\ [][IsPrefix(log_data_store, log_data_store')]_vars
    /\ [][log_data_store' # log_data_store =>
            /\ lock = "conn"
            /\ \E c \in Holders :
                 log_data_store' = Append(log_data_store, conn_event[c])]_vars
    /\ [][loop_pc = "locked" /\ loop_pc' # "locked" =>
            /\ lock = "loop"
            /\ log_data_store' = log_data_store
            /\ loop_pc' # "sleep" => all_logs' = log_data_store]_vars
    /\ [][\A c \in Conns :
            conn_pc[c] \in {"wait", "append"} =>
               \/ /\ conn_event'[c] = conn_event[c]
                  /\ conn_pc'[c] \in {"wait", "append"}
                  /\ log_data_store' # log_data_store => conn_pc[c] = "wait"
               \/ /\ conn_pc[c] = "append" /\ conn_pc'[c] = "recv"
                  /\ log_data_store' = Append(log_data_store, conn_event[c])]_vars

\* C16 witness: a tick of ai_engine_loop is training on its snapshot and a
\* handler has appended an event since the snapshot was taken.
C16_Witness ==
    /\ program = "main" /\ loop_pc = "train"
    /\ Len(all_logs) < Len(log_data_store)
    /\ IsPrefix(all_logs, log_data_store)

\* A tick of main_loop on which the retrain branch has fitted a new model.
RetrainStep ==
    /\ program = "ai_engine" /\ ai_pc = "sleep"
    /\ model # None
    /\ logs_processed_since_retrain >= MODEL_RETRAIN_LOG_COUNT
    /\ last_model_train_time' # last_model_train_time

\* C17: a tick of the trained main_loop that starts with the retrain count
\* reached retrains on the most recent TRAINING_DATA_SIZE rows, scores
\* nothing and emits no alert, resets the counter to 0, and leaves the cursor
\* past the retrain batch (so that no row of the batch is scored later).
C17_RetrainPolicy ==
    [][RetrainStep =>
         /\ logs_processed_since_retrain' = 0
         /\ UNCHANGED <<alerts, notified, scored_ids, alerts_to_insert>>
         /\ ai_pc' = "sleep"
         /\ trained_ids' \ trained_ids \subseteq UNION get_training_data
         /\ \E batch \in get_training_data :
              /\ batch \subseteq trained_ids'
              /\ \A a \in batch :
                   logs[a].timestamp <= last_processed_timestamp']_vars

\* The parts of C17 other than the cursor: the retrain tick fits on the most
\* recent rows, scores nothing, emits no alert and resets the counter.
C17_RetrainWithoutCursor ==
    [][RetrainStep =>
         /\ logs_processed_since_retrain' = 0
         /\ UNCHANGED <<alerts, notified, scored_ids, alerts_to_insert,
                        last_processed_timestamp>>
         /\ ai_pc' = "sleep"
         /\ \E batch \in get_training_data : batch \subseteq trained_ids']_vars

\* C18: the cursors (processed_log_count of ai_engine_loop,
\* last_processed_timestamp of main_loop) never decrease and never point past
\* the last stored event; they change only on the step that ends a tick
\* whose batch was trained on or scored to its last event, and then to the
\* end of that batch; a tick that processes nothing leaves them alone.
C18_CursorDiscipline ==
    /\ [](/\ processed_log_count \in 0..Len(log_data_store)
          /\ \/ last_processed_timestamp = Epoch
             \/ \E a \in RowIds : logs[a].timestamp = last_processed_timestamp)
    /\ [][/\ processed_log_count' >= processed_log_count
          /\ last_processed_timestamp' >= last_processed_timestamp]_vars
    /\ [][processed_log_count' # processed_log_count =>
            /\ loop_pc' = "sleep"
            /\ processed_log_count' = Len(all_logs)
            /\ \/ loop_pc = "train" /\ model' = scaler' /\ model' # None
               \/ /\ loop_pc = "detect" /\ di > Len(new_logs)
                  /\ Len(fvecs) = Len(all_logs)]_vars
    /\ [][last_processed_timestamp' # last_processed_timestamp =>
            /\ ai_pc = "scan" /\ ai_pc' = "sleep"
            /\ ai_i > Len(ai_new_logs)
            /\ alerts' = alerts \o alerts_to_insert
            /\ \A k \in 1..Len(ai_new_logs) :
                 /\ ai_new_logs[k] \in scored_ids
                 /\ logs[ai_new_logs[k]].timestamp <= last_processed_timestamp'
            /\ \E k \in 1..Len(ai_new_logs) :
                 logs[ai_new_logs[k]].timestamp = last_processed_timestamp']_vars
    /\ [][/\ loop_pc = "locked" /\ loop_pc' = "sleep"
          => processed_log_count' = processed_log_count]_vars
    /\ [][ai_pc = "sleep" => last_processed_timestamp' = last_processed_timestamp]_vars

\* C18 witness: main_loop has moved its cursor to the first instant at the
\* end of a scoring tick, and a later tick is scoring a row of a later
\* instant, the cursor still standing where it was.
C18_Witness ==
    /\ program = "ai_engine" /\ ai_pc = "scan" /\ ai_i > 1
    /\ last_processed_timestamp = 1
    /\ \E k \in 1..Len(ai_new_logs) :
         logs[ai_new_logs[k]].timestamp > last_processed_timestamp

\* The position of row a in the batch of the running tick.
PosInBatch(a) == CHOOSE k \in 1..Len(ai_new_logs) : ai_new_logs[k] = a

\* The alerts of main_loop in the order emitted: those of earlier ticks (in
\* the alerts table), then those of the running tick.
AlertsEmitted == alerts \o alerts_to_insert

C19_InsertionOrderWithinTick ==
    \A j, k \in 1..Len(alerts_to_insert) :
       j < k => alerts_to_insert[j] < alerts_to_insert[k]

\* C20: in main.py the thread that holds the store lock is the detection
\* loop between acquiring it and copying the list, or a handler between
\* acquiring it and appending its one event: never a handler at recv, never
\* the loop inside train_model or detect_anomalies.  The holder's next step
\* releases the lock, and while the loop trains or scores a handler that
\* waits for a free lock can take it.
C20_LockScope ==
    /\ [](lock = "loop" => loop_pc = "locked")
    /\ [](loop_pc \in {"sleep", "train", "detect", "crashed"} => lock # "loop")
    /\ [](lock = "conn" => Cardinality(Holders) = 1)
    /\ [](\A c \in Conns :
            conn_pc[c] \in {"recv", "recv_rest", "wait", "closed"} =>
               lock # "conn" \/ \E d \in Holders : d # c)
    /\ [](\A c \in Conns :
            /\ loop_pc \in {"train", "detect"}
            /\ conn_pc[c] = "wait" /\ Holders = {}
            => ENABLED ConnAcquire(c))
    /\ [][loop_pc = "locked" /\ loop_pc' # "locked" => lock' = "free"]_vars
    /\ [][\A c \in Conns :
            conn_pc[c] = "append" /\ conn_pc'[c] # "append" =>
               /\ lock' = "free"
               /\ Len(log_data_store') = Len(log_data_store) + 1]_vars

\* C20 witness: a handler is inside "with lock:" appending an event while
\* ai_engine_loop is inside train_model.
C20_Witness ==
    /\ program = "main" /\ loop_pc = "train" /\ lock = "conn"
    /\ \E c \in Conns : conn_pc[c] = "append"

\* The allow-list of known users, and the value of user_is_rare it gives.
KnownUsers == {"ubuntu", "ec2-user", "admin", "deploy"}
RareByAllowList(user) == IF user \in KnownUsers THEN 0 ELSE 1

\* The part of C21 about main.py: user_is_rare of every extracted event is 1
\* exactly when its user is not on the allow-list.
C21_MainUsesAllowList ==
    \A k \in 1..Len(fvecs) :
       fvecs[k][4] = RareByAllowList(DetailsUser(log_data_store[k]))

\* C21: in both extractors user_is_rare is 1 exactly when the event's user
\* is not on the allow-list: for every event main.extract_features was
\* called on, and for every row ai_engine.extract_features was called on (in
\* a training batch or a scoring batch).
C21_RareUserFeature ==
    /\ C21_MainUsesAllowList
    /\ \A a \in trained_ids \cup scored_ids :
         ai_extract_features(logs[a])[3] = RareByAllowList(logs[a].user)

\* No tick of main_loop is under way: nothing is fetched but unprocessed,
\* every alert notified is in the alerts table, and the cursor stands past
\* every row that was scored.
NoPartialTick ==
    /\ ai_new_logs = <<>> /\ alerts_to_insert = <<>>
    /\ \A k \in 1..Len(notified) : Occurrences(alerts, notified[k][1]) = 1
    /\ \A a \in scored_ids : logs[a].timestamp <= last_processed_timestamp

\* C22: when the orchestrator has terminated ai_engine.py, the tick that was
\* under way has been completed: no partial tick is left.
C22_ShutdownFinishesTick == ai_pc = "terminated" => NoPartialTick

\* C23: once a tick of main_loop has ended, however the notify calls and
\* the insert of the batch went, every alert that was notified to the
\* subscriber is in the alerts table.
C23_NotifiedImpliesPersisted ==
    ai_pc \in {"sleep", "crashed"} =>
       \A k \in 1..Len(notified) : Occurrences(alerts, notified[k][1]) >= 1

\* The same while every insert of a batch succeeds.
C23_PersistedUnlessInsertFails ==
    ai_pc = "sleep" \/ (ai_pc = "crashed" /\ ai_exc # "insert_alerts") =>
       \A k \in 1..Len(notified) : Occurrences(alerts, notified[k][1]) >= 1

\* C24: once run.signal_handler has run to its end, no child process the
\* orchestrator has started is running, and none is started afterwards.
C24_NoChildSurvivesShutdown ==
    run_pc = "done" => \A s \in ServiceNames : proc[s] # "running"

\* What signal_handler does achieve: a process that is in the list when the
\* second loop reaches its position is not running after that step.
C24_KillPassEndsListed ==
    [][run_pc = "kill" /\ run_i' = run_i + 1
         => proc'[processes[run_i]] # "running"]_vars
=============================================================================
